---- MODULE Spec2Model ----
(***************************************************************************)
(* Model of ssg (src/try1/src/main.rs): a mock HTTP service generated from *)
(* route-annotated TypeScript interfaces.                                  *)
(*                                                                         *)
(*   parse_typescript_file  comments of one parsed unit -> Vec<Entity>     *)
(*   scan_dir               directory walk, concatenating the Entities     *)
(*   main                   scan, then one App per worker, then serving    *)
(*   generate_fake_data     one JSON object per GET                        *)
(*                                                                         *)
(* Strings are sequences of atoms: an atom is one whitespace character or  *)
(* one whitespace-free chunk of characters, so that splitting a string is  *)
(* computed, not assumed.                                                  *)
(***************************************************************************)
EXTENDS Integers, Sequences, FiniteSets, TLC

VARIABLES
    unit,           \* parse_typescript_file: the parsed unit (ret.program)
    ci,             \* parse_typescript_file: number of comments already visited
    entities,       \* parse_typescript_file: the local `entities` vector
    origin,         \* history: for each element of entities, the comment it came from
    ppc,            \* parse_typescript_file: "loop", "returned" or "panicked"
    fs,             \* the file tree under the current directory
    pc,             \* main: "scan", "built", "listening", "exit_err" or "panicked"
    dirs_to_visit,  \* scan_dir: the stack of directories
    entries,        \* scan_dir: what is left of the read_dir iterator
    scanned,        \* scan_dir: the local `entities` vector
    catalog,        \* main: `entities`, once scan_dir has returned Ok
    apps,           \* per worker: the App built by the HttpServer factory
    reqs,           \* per request: the state of its generate_fake_data call
    preserve_order, \* build: serde_json's preserve_order feature
    visited,        \* history: the source files parsed, in order
    io_failed,      \* history: a read of scan_dir has failed
    parse_failed    \* history: a visited source file could not be parsed

pvars == <<unit, ci, entities, origin, ppc>>
svars == <<fs, pc, dirs_to_visit, entries, scanned, catalog, visited, io_failed,
           parse_failed>>
rvars == <<apps, reqs, preserve_order>>
vars == <<pvars, svars, rvars>>

----------------------------------------------------------------------------
(* Bounds of the model.                                                    *)

MaxText == 3
MaxMembers == 2
MaxComments == 2
MaxStmts == 2
MaxEntries == 2
MaxProps == 2

----------------------------------------------------------------------------
(* Text.                                                                   *)

WsAtoms == {" ", "\t", "\n"}
WordAtoms == {"route", "/a"}
Atoms == WsAtoms \cup WordAtoms

RECURSIVE SeqsUpTo(_, _)
SeqsUpTo(S, n) ==
    IF n = 0 THEN {<<>>}
    ELSE LET shorter == SeqsUpTo(S, n - 1)
         IN  shorter \cup {Append(s, x) : s \in {t \in shorter : Len(t) = n - 1}, x \in S}

(* str::split(sep): the pieces between separators, empty pieces included.  *)
RECURSIVE SplitOn(_, _)
SplitOn(text, seps) ==
    IF text = <<>> THEN << <<>> >>
    ELSE LET rest == SplitOn(Tail(text), seps)
         IN  IF Head(text) \in seps
             THEN << <<>> >> \o rest
             ELSE << <<Head(text)>> \o Head(rest) >> \o Tail(rest)

(* main.rs:23  comment_text.split(" ")                                     *)
Separators == {" "}

(* main.rs:23  .filter(|&x| !x.is_empty()).collect()                       *)
CommentParts(text) ==
    SelectSeq(SplitOn(text, Separators), LAMBDA part : part # <<>>)

(* main.rs:26  decl.contains("route")                                      *)
ContainsRoute(part) == \E i \in 1..Len(part) : part[i] = "route"

----------------------------------------------------------------------------
(* The parsed unit: comments with their attachment offset, and top-level   *)
(* statements with their start offset.                                     *)

NoName == "<none>"
Names == {"a", "b"}
Keywords == {"boolean", "number", "string"}
Annotations == Keywords \cup {"union", "none"}

(* Declaration variants of oxc's Statement; the others are statements that *)
(* are not declarations.                                                   *)
DeclarationKinds == {"TSInterfaceDeclaration", "FunctionDeclaration",
                     "ClassDeclaration", "VariableDeclaration"}
OtherKinds == {"ExpressionStatement", "ExportNamedDeclaration"}

PropertyMembers ==
    [sig : {"TSPropertySignature"}, name : Names, optional : BOOLEAN,
     annot : Annotations]
Members ==
    PropertyMembers
    \cup {[sig |-> "TSPropertySignature", name |-> NoName, optional |-> FALSE,
           annot |-> "number"],
          [sig |-> "TSMethodSignature", name |-> "a", optional |-> FALSE,
           annot |-> "number"]}

None == [kind |-> "None"]

(* main.rs:116-120  enum TProp                                             *)
TProp(annot) ==
    CASE annot = "boolean" -> "Boolean"
      [] annot = "number" -> "Number"
      [] annot = "string" -> "String"

(* PropOf with the optional marker read: an optional member is dropped      *)
PropOfRequired(member) ==
    IF member.sig # "TSPropertySignature" \/ member.optional THEN None
    ELSE IF member.name = NoName \/ member.annot = "none" THEN None
    ELSE IF member.annot \in Keywords
         THEN [kind |-> "Prop", id |-> member.name,
               ty |-> IF member.annot = "boolean" THEN "Boolean"
                      ELSE IF member.annot = "number" THEN "Number" ELSE "String"]
         ELSE None

(* main.rs:48-73  one member of the interface body: the Prop it pushes, or *)
(* None.  The member's optional flag is not read.                          *)
PropOf(member) ==
    IF member.sig # "TSPropertySignature" THEN None
    ELSE IF member.name = NoName \/ member.annot = "none" THEN None
    ELSE IF member.annot \in Keywords
         THEN [kind |-> "Prop", id |-> member.name, ty |-> TProp(member.annot)]
         ELSE None

StripKind(p) == [id |-> p.id, ty |-> p.ty]

(* main.rs:47-75  for prop in interface.body.body.iter()                   *)
RECURSIVE ExtractProps(_)
ExtractProps(members) ==
    IF members = <<>> THEN <<>>
    ELSE LET p == PropOf(Head(members))
         IN  (IF p = None THEN <<>> ELSE <<StripKind(p)>>)
             \o ExtractProps(Tail(members))

(* main.rs:35-39  body.iter().find(|&x| x.span().start == attached_to)     *)
RECURSIVE Find(_, _)
Find(body, attached_to) ==
    IF body = <<>> THEN None
    ELSE IF Head(body).start = attached_to THEN Head(body)
    ELSE Find(Tail(body), attached_to)

(* main.rs:41  statement.to_declaration() panics unless the statement is   *)
(* one of the Declaration variants.                                        *)
IsDeclaration(statement) == statement.kind \in DeclarationKinds

Skip == [kind |-> "skip"]
Panic == [kind |-> "panic"]

(* main.rs:21-79  the body of the loop over ret.program.comments           *)
CommentStep(program, comment) ==
    LET comment_parts == CommentParts(comment.text)
    IN  IF comment_parts = <<>> \/ ~ContainsRoute(comment_parts[1]) THEN Skip
        ELSE IF Len(comment_parts) < 2 THEN Skip
        ELSE LET statement == Find(program.body, comment.attached_to)
             IN  IF statement = None THEN Skip
                 ELSE IF ~IsDeclaration(statement) THEN Panic
                 ELSE IF statement.kind # "TSInterfaceDeclaration" THEN Skip
                 ELSE [kind |-> "entity",
                       entity |-> [route |-> comment_parts[2],
                                   props |-> ExtractProps(statement.members)]]

----------------------------------------------------------------------------
(* Input units.                                                            *)

Stmt(k, ms) == [kind |-> k, members |-> ms]
Number_a == [sig |-> "TSPropertySignature", name |-> "a", optional |-> FALSE,
             annot |-> "number"]

(* statements of a unit get increasing start offsets 1, 2, ...; offset 0 is *)
(* the start of no top-level statement                                      *)
WithStarts(stmts) ==
    [i \in 1..Len(stmts) |->
        [kind |-> stmts[i].kind, members |-> stmts[i].members, start |-> i]]

RouteA == <<"route", " ", "/a">>
SampleTexts == {RouteA, <<"/a", " ", "/a">>}
SampleStmts ==
    {Stmt("TSInterfaceDeclaration", <<Number_a>>),
     Stmt("FunctionDeclaration", <<>>),
     Stmt("ExpressionStatement", <<>>),
     Stmt("ExportNamedDeclaration", <<>>)}

Program(cs, stmts) == [comments |-> cs, body |-> WithStarts(stmts)]

(* one comment of arbitrary text before one statement                      *)
TextUnits ==
    {Program(<<[text |-> t, attached_to |-> 1]>>,
             <<Stmt("TSInterfaceDeclaration", <<Number_a>>)>>) :
        t \in SeqsUpTo(Atoms, MaxText)}

(* one route comment before one interface of arbitrary members             *)
MemberUnits ==
    {Program(<<[text |-> RouteA, attached_to |-> 1]>>,
             <<Stmt("TSInterfaceDeclaration", ms)>>) :
        ms \in SeqsUpTo(Members, MaxMembers)}

(* several comments and statements, attached in every way                  *)
ShapeUnits ==
    {Program(cs, stmts) :
        cs \in SeqsUpTo([text : SampleTexts, attached_to : 0..MaxStmts], MaxComments),
        stmts \in SeqsUpTo(SampleStmts, MaxStmts)}

Units == TextUnits \cup MemberUnits \cup ShapeUnits

----------------------------------------------------------------------------
(* Files, the parser, and parse_typescript_file as a function.             *)

EmptyProgram == [comments |-> <<>>, body |-> <<>>]

(* main.rs:15-17  Parser::new(..).parse(): the program of the file; for a  *)
(* file that cannot be parsed the parser returns an empty program together *)
(* with its errors, which parse_typescript_file never reads.               *)
ParserParse(file) == IF file.parsed THEN file.unit ELSE EmptyProgram

RECURSIVE ParseFrom(_, _, _)
ParseFrom(program, i, acc) ==
    IF i > Len(program.comments) THEN [kind |-> "ok", entities |-> acc]
    ELSE LET r == CommentStep(program, program.comments[i])
         IN  IF r.kind = "panic" THEN Panic
             ELSE ParseFrom(program, i + 1,
                            IF r.kind = "entity" THEN Append(acc, r.entity) ELSE acc)

(* main.rs:13-81  parse_typescript_file                                    *)
ParseTypescriptFile(file) == ParseFrom(ParserParse(file), 1, <<>>)

----------------------------------------------------------------------------
(* JSON values and serde_json's Map.                                       *)

Types == {"Boolean", "Number", "String"}
Digits == <<"0", "1", "2", "3", "4", "5", "6", "7", "8", "9">>
IsDigit(c) == \E d \in 1..Len(Digits) : Digits[d] = c
DigitValue(c) == (CHOOSE d \in 1..Len(Digits) : Digits[d] = c) - 1

(* digits the random generator is let to draw                              *)
SampleDigits == {"0", "9"}
Words == {"lorem", "ipsum"}

(* Format with a character that is no '#'                                   *)
FormatWithSeparator == <<"#", ".", "#">>

(* main.rs:129  NumberWithFormat("###")                                    *)
Format == <<"#", "#", "#">>

(* fake's numerify: every '#' of the format becomes a random digit, every  *)
(* other character is kept                                                 *)
RECURSIVE Numerify(_)
Numerify(fmt) ==
    IF fmt = <<>> THEN {<<>>}
    ELSE LET firsts == IF Head(fmt) = "#" THEN SampleDigits ELSE {Head(fmt)}
         IN  {<<c>> \o rest : c \in firsts, rest \in Numerify(Tail(fmt))}

Err == -1

(* main.rs:131  str::parse::<i64>() of a string without sign: Err on an    *)
(* empty string or on a character that is no digit                         *)
RECURSIVE ParseDigits(_, _)
ParseDigits(s, acc) ==
    IF s = <<>> THEN acc
    ELSE IF ~IsDigit(Head(s)) THEN Err
    ELSE ParseDigits(Tail(s), acc * 10 + DigitValue(Head(s)))

ParseI64(s) == IF s = <<>> THEN Err ELSE ParseDigits(s, 0)

Bool(b) == [t |-> "Bool", b |-> b, n |-> 0, s |-> ""]
Number(n) == [t |-> "Number", b |-> FALSE, n |-> n, s |-> ""]
String(w) == [t |-> "String", b |-> FALSE, n |-> 0, s |-> w]
Unwrapped == [t |-> "panic", b |-> FALSE, n |-> 0, s |-> ""]

(* main.rs:126-135  the value of one property; Unwrapped when unwrap() of  *)
(* the parse result panics                                                 *)
Synthesize(ty) ==
    CASE ty = "Boolean" -> {Bool(b) : b \in BOOLEAN}
      [] ty = "Number" ->
            {IF ParseI64(s) = Err THEN Unwrapped ELSE Number(ParseI64(s)) :
                s \in Numerify(Format)}
      [] ty = "String" -> {String(w) : w \in Words}

KeyOrder == <<"a", "b">>
Rank(k) == CHOOSE i \in 1..Len(KeyOrder) : KeyOrder[i] = k

HasKey(map, k) == \E i \in 1..Len(map) : map[i].key = k

(* MapInsert without the lookup of the key: every insertion adds an entry  *)
MapInsertAppend(map, k, v) == Append(map, [key |-> k, val |-> v])

(* serde_json::Map::insert: an existing key keeps its place and gets the   *)
(* new value; a new key goes last with preserve_order (IndexMap), and in   *)
(* key order without it (BTreeMap)                                         *)
MapInsert(map, k, v) ==
    IF HasKey(map, k)
    THEN [i \in 1..Len(map) |->
            IF map[i].key = k THEN [key |-> k, val |-> v] ELSE map[i]]
    ELSE IF preserve_order THEN Append(map, [key |-> k, val |-> v])
    ELSE LET before == SelectSeq(map, LAMBDA e : Rank(e.key) < Rank(k))
             after == SelectSeq(map, LAMBDA e : Rank(e.key) > Rank(k))
         IN  before \o <<[key |-> k, val |-> v]>> \o after

(* main.rs:136  data[&prop.id] = value                                     *)
IndexAssign(data, prop, value) == MapInsert(data, prop.id, value)

----------------------------------------------------------------------------
(* The HTTP application.                                                   *)

Workers == {"w1", "w2"}
Requests == {"r1", "r2"}
PathA == <<"/a">>
PathB == <<"/b">>
Paths == {PathA, PathB}

Unbuilt == [built |-> FALSE, services |-> <<>>]

(* Factory with the Entity put on the App instead of on each resource: all *)
(* handlers see the Entity registered last                                 *)
FactoryShared(ents) ==
    [built |-> TRUE,
     services |-> [k \in 1..Len(ents) |-> [pattern |-> ents[k].route,
                                           app_data |-> ents[Len(ents)]]]]

(* main.rs:147-158  the factory closure: one resource per Entity of the    *)
(* catalog, in catalog order, each holding its own clone of the Entity     *)
Factory(ents) ==
    [built |-> TRUE,
     services |-> [k \in 1..Len(ents) |-> [pattern |-> ents[k].route,
                                           app_data |-> ents[k]]]]

(* Recognize with the resource registered last winning                     *)
RecognizeLast(services, path) ==
    IF \E k \in 1..Len(services) : services[k].pattern = path
    THEN CHOOSE k \in 1..Len(services) :
            /\ services[k].pattern = path
            /\ \A j \in (k + 1)..Len(services) : services[j].pattern # path
    ELSE 0

(* main.rs:151-155  app.service(web::resource(..)): the router tries the   *)
(* resources in registration order; 0 when none matches the path           *)
Recognize(services, path) ==
    IF \E k \in 1..Len(services) : services[k].pattern = path
    THEN CHOOSE k \in 1..Len(services) :
            /\ services[k].pattern = path
            /\ \A j \in 1..(k - 1) : services[j].pattern # path
    ELSE 0

NoEntity == [route |-> <<>>, props |-> <<>>]
IdleReq == [st |-> "idle", worker |-> "w1", path |-> <<>>, entity |-> NoEntity,
            i |-> 0, data |-> <<>>]

----------------------------------------------------------------------------
(* The file tree.                                                          *)

Dir(d) == [type |-> "dir", dir |-> d, ext |-> "", parsed |-> TRUE,
           unit |-> EmptyProgram]
File(ext, parsed, u) == [type |-> "file", dir |-> "", ext |-> ext,
                         parsed |-> parsed, unit |-> u]

Member(n, a) == [sig |-> "TSPropertySignature", name |-> n, optional |-> FALSE,
                 annot |-> a]
Annotated(route, ms) ==
    Program(<<[text |-> <<"route", " ", route>>, attached_to |-> 1]>>,
            <<Stmt("TSInterfaceDeclaration", ms)>>)

(* // route /a  interface A { a: boolean }                                 *)
FileA1 == File("ts", TRUE, Annotated("/a", <<Member("a", "boolean")>>))
(* // route /a  interface B { b: string }                                  *)
FileA2 == File("tsx", TRUE, Annotated("/a", <<Member("b", "string")>>))
(* // route /b  interface C { b: boolean; a: string }                      *)
FileB == File("ts", TRUE,
              Annotated("/b", <<Member("b", "boolean"), Member("a", "string")>>))
(* a source file with a syntax error                                       *)
FileBad == File("ts", FALSE, EmptyProgram)
(* // route /b  export interface D { a: number }                           *)
FileExport ==
    File("ts", TRUE,
         Program(<<[text |-> <<"route", " ", "/b">>, attached_to |-> 1]>>,
                 <<Stmt("ExportNamedDeclaration", <<>>)>>))
(* a file that is no TypeScript source                                     *)
FileMd == File("md", TRUE, EmptyProgram)

RootEntries == {FileA1, FileA2, FileB, FileBad, FileExport, FileMd, Dir("sub")}
SubEntries == {FileA2}

HasSub(r) == \E k \in 1..Len(r) : r[k].type = "dir"

(* the root directory and, when it is listed there, the directory sub      *)
Trees ==
    {t \in [root : SeqsUpTo(RootEntries, MaxEntries), sub : SeqsUpTo(SubEntries, 1)] :
        HasSub(t.root) \/ t.sub = <<>>}

----------------------------------------------------------------------------
(* parse_typescript_file as a state machine: one step per comment.         *)

ParseIdle ==
    /\ unit = EmptyProgram
    /\ ci = 0
    /\ entities = <<>>
    /\ origin = <<>>
    /\ ppc = "returned"

ScanIdle ==
    /\ fs = [root |-> <<>>, sub |-> <<>>]
    /\ dirs_to_visit = <<>>
    /\ entries = <<>>
    /\ scanned = <<>>
    /\ visited = <<>>
    /\ io_failed = FALSE
    /\ parse_failed = FALSE

InitParse ==
    /\ unit \in Units
    /\ ci = 0
    /\ entities = <<>>
    /\ origin = <<>>
    /\ ppc = "loop"
    /\ ScanIdle
    /\ pc = "scan"
    /\ catalog = <<>>
    /\ apps = [w \in Workers |-> Unbuilt]
    /\ reqs = [r \in Requests |-> IdleReq]
    /\ preserve_order = FALSE

(* main.rs:21-79  one iteration of the loop                                *)
ParseComment ==
    /\ ppc = "loop"
    /\ ci < Len(unit.comments)
    /\ LET r == CommentStep(unit, unit.comments[ci + 1])
       IN  /\ ppc' = IF r = Panic THEN "panicked" ELSE "loop"
           /\ ci' = ci + 1
           /\ entities' = IF r.kind = "entity" THEN Append(entities, r.entity)
                          ELSE entities
           /\ origin' = IF r.kind = "entity" THEN Append(origin, ci + 1) ELSE origin
    /\ UNCHANGED <<unit, svars, rvars>>

(* main.rs:80  entities                                                    *)
ParseReturn ==
    /\ ppc = "loop"
    /\ ci = Len(unit.comments)
    /\ ppc' = "returned"
    /\ UNCHANGED <<unit, ci, entities, origin, svars, rvars>>

NextParse == ParseComment \/ ParseReturn

SpecParse == InitParse /\ [][NextParse]_vars

----------------------------------------------------------------------------
(* main and scan_dir.                                                      *)

Init ==
    /\ ParseIdle
    /\ fs \in Trees
    /\ pc = "scan"
    /\ dirs_to_visit = <<"root">>
    /\ entries = <<>>
    /\ scanned = <<>>
    /\ catalog = <<>>
    /\ visited = <<>>
    /\ io_failed = FALSE
    /\ parse_failed = FALSE
    /\ apps = [w \in Workers |-> Unbuilt]
    /\ reqs = [r \in Requests |-> IdleReq]
    /\ preserve_order \in BOOLEAN

(* Propagate with the error swallowed: scan_dir goes on                     *)
PropagateSwallowed == "scan"

(* main.rs:88,89,94,145  the `?` operator: the error leaves scan_dir and   *)
(* main at once                                                            *)
Propagate == "exit_err"

(* the locals of scan_dir are dropped when it returns early                *)
ScanAborts(to) ==
    /\ pc' = to
    /\ dirs_to_visit' = <<>>
    /\ entries' = <<>>
    /\ scanned' = <<>>
    /\ UNCHANGED <<pvars, fs, catalog, visited, parse_failed, rvars>>

IsSource(entry) == entry.type = "file" /\ entry.ext \in {"ts", "tsx"}

(* main.rs:87-88  dirs_to_visit.pop() and fs::read_dir(&current_dir)       *)
ReadDir ==
    /\ pc = "scan"
    /\ entries = <<>>
    /\ dirs_to_visit # <<>>
    /\ entries' = fs[dirs_to_visit[Len(dirs_to_visit)]]
    /\ dirs_to_visit' = SubSeq(dirs_to_visit, 1, Len(dirs_to_visit) - 1)
    /\ UNCHANGED <<pvars, fs, pc, scanned, catalog, visited, io_failed,
                   parse_failed, rvars>>

(* main.rs:88  fs::read_dir(&current_dir)? returns Err                     *)
ReadDirFails ==
    /\ pc = "scan"
    /\ entries = <<>>
    /\ dirs_to_visit # <<>>
    /\ io_failed' = TRUE
    /\ ScanAborts(Propagate)

(* main.rs:89  entry? returns Err                                          *)
EntryFails ==
    /\ pc = "scan"
    /\ entries # <<>>
    /\ io_failed' = TRUE
    /\ ScanAborts(Propagate)

(* main.rs:90-91  a directory is pushed on the stack                       *)
VisitDir ==
    /\ pc = "scan"
    /\ entries # <<>>
    /\ Head(entries).type = "dir"
    /\ dirs_to_visit' = Append(dirs_to_visit, Head(entries).dir)
    /\ entries' = Tail(entries)
    /\ UNCHANGED <<pvars, fs, pc, scanned, catalog, visited, io_failed,
                   parse_failed, rvars>>

(* main.rs:92-93  a file without extension, or with another extension      *)
VisitOther ==
    /\ pc = "scan"
    /\ entries # <<>>
    /\ Head(entries).type = "file"
    /\ ~IsSource(Head(entries))
    /\ entries' = Tail(entries)
    /\ UNCHANGED <<pvars, fs, pc, dirs_to_visit, scanned, catalog, visited,
                   io_failed, parse_failed, rvars>>

(* main.rs:94-95  a .ts or .tsx file is read, parsed, and its Entities are *)
(* appended; a panic of parse_typescript_file ends the process             *)
VisitSource ==
    /\ pc = "scan"
    /\ entries # <<>>
    /\ IsSource(Head(entries))
    /\ LET r == ParseTypescriptFile(Head(entries))
       IN  IF r.kind = "panic"
           THEN /\ pc' = "panicked"
                /\ dirs_to_visit' = <<>>
                /\ entries' = <<>>
                /\ scanned' = <<>>
           ELSE /\ scanned' = scanned \o r.entities
                /\ entries' = Tail(entries)
                /\ UNCHANGED <<pc, dirs_to_visit>>
    /\ visited' = Append(visited, Head(entries))
    /\ parse_failed' = (parse_failed \/ ~Head(entries).parsed)
    /\ UNCHANGED <<pvars, fs, catalog, io_failed, rvars>>

(* main.rs:94  fs::read_to_string(&path)? returns Err                      *)
ReadFileFails ==
    /\ pc = "scan"
    /\ entries # <<>>
    /\ IsSource(Head(entries))
    /\ io_failed' = TRUE
    /\ ScanAborts(Propagate)

(* main.rs:100,145  Ok(entities) reaches main                              *)
ScanReturn ==
    /\ pc = "scan"
    /\ entries = <<>>
    /\ dirs_to_visit = <<>>
    /\ pc' = "built"
    /\ catalog' = scanned
    /\ scanned' = <<>>
    /\ UNCHANGED <<pvars, fs, dirs_to_visit, entries, visited, io_failed,
                   parse_failed, rvars>>

(* main.rs:160  app.bind("127.0.0.1:3000")?.run()                          *)
Bind ==
    /\ pc = "built"
    /\ pc' = "listening"
    /\ UNCHANGED <<pvars, fs, dirs_to_visit, entries, scanned, catalog, visited,
                   io_failed, parse_failed, rvars>>

(* main.rs:160  bind returns Err (the address is in use)                   *)
BindFails ==
    /\ pc = "built"
    /\ pc' = "exit_err"
    /\ UNCHANGED <<pvars, fs, dirs_to_visit, entries, scanned, catalog, visited,
                   io_failed, parse_failed, rvars>>

(* main.rs:147-158  a worker runs the factory closure                      *)
BuildApp(w) ==
    /\ pc = "listening"
    /\ ~apps[w].built
    /\ apps' = [apps EXCEPT ![w] = Factory(catalog)]
    /\ UNCHANGED <<pvars, svars, reqs, preserve_order>>

----------------------------------------------------------------------------
(* Serving: generate_fake_data, one step per property.                     *)

(* main.rs:122-123  a GET that a resource of worker w matches: the handler *)
(* starts with the resource's Entity and an empty object                   *)
StartRequest(r, w, path) ==
    /\ pc = "listening"
    /\ apps[w].built
    /\ reqs[r].st = "idle"
    /\ Recognize(apps[w].services, path) # 0
    /\ reqs' = [reqs EXCEPT ![r] =
                  [st |-> "handling", worker |-> w, path |-> path,
                   entity |-> apps[w].services[Recognize(apps[w].services, path)].app_data,
                   i |-> 0, data |-> <<>>]]
    /\ UNCHANGED <<pvars, svars, apps, preserve_order>>

(* a GET that no resource matches: the HTTP layer's 404                    *)
NotFound(r, w, path) ==
    /\ pc = "listening"
    /\ apps[w].built
    /\ reqs[r].st = "idle"
    /\ Recognize(apps[w].services, path) = 0
    /\ reqs' = [reqs EXCEPT ![r] =
                  [st |-> "not_found", worker |-> w, path |-> path,
                   entity |-> NoEntity, i |-> 0, data |-> <<>>]]
    /\ UNCHANGED <<pvars, svars, apps, preserve_order>>

(* main.rs:125-137  one iteration of the loop over entity.props            *)
GenStep(r) ==
    /\ reqs[r].st = "handling"
    /\ reqs[r].i < Len(reqs[r].entity.props)
    /\ LET prop == reqs[r].entity.props[reqs[r].i + 1]
       IN  \E value \in Synthesize(prop.ty) :
              reqs' = [reqs EXCEPT ![r] =
                         IF value = Unwrapped
                         THEN [@ EXCEPT !.st = "panicked"]
                         ELSE [@ EXCEPT !.i = @ + 1,
                                        !.data = IndexAssign(@, prop, value)]]
    /\ UNCHANGED <<pvars, svars, apps, preserve_order>>

(* main.rs:139  web::Json(data)                                            *)
Respond(r) ==
    /\ reqs[r].st = "handling"
    /\ reqs[r].i = Len(reqs[r].entity.props)
    /\ reqs' = [reqs EXCEPT ![r].st = "responded"]
    /\ UNCHANGED <<pvars, svars, apps, preserve_order>>

(* the response is written and the connection serves the next request      *)
Deliver(r) ==
    /\ reqs[r].st \in {"responded", "not_found"}
    /\ reqs' = [reqs EXCEPT ![r] = IdleReq]
    /\ UNCHANGED <<pvars, svars, apps, preserve_order>>

Next ==
    \/ ReadDir
    \/ ReadDirFails
    \/ EntryFails
    \/ VisitDir
    \/ VisitOther
    \/ VisitSource
    \/ ReadFileFails
    \/ ScanReturn
    \/ Bind
    \/ BindFails
    \/ \E w \in Workers : BuildApp(w)
    \/ \E r \in Requests, w \in Workers, path \in Paths : StartRequest(r, w, path)
    \/ \E r \in Requests, w \in Workers, path \in Paths : NotFound(r, w, path)
    \/ \E r \in Requests : GenStep(r)
    \/ \E r \in Requests : Respond(r)
    \/ \E r \in Requests : Deliver(r)

Spec == Init /\ [][Next]_vars

----------------------------------------------------------------------------
(* generate_fake_data alone: one request against one Entity of any shape.  *)

Props == [id : Names, ty : Types]
GenEntities == {[route |-> PathA, props |-> ps] : ps \in SeqsUpTo(Props, MaxProps)}

InitGen ==
    /\ ParseIdle
    /\ ScanIdle
    /\ pc = "listening"
    /\ catalog \in {<<e>> : e \in GenEntities}
    /\ apps = [w \in Workers |-> Factory(catalog)]
    /\ reqs = [r \in Requests |-> IdleReq]
    /\ preserve_order \in BOOLEAN

NextGen ==
    \/ \E w \in Workers, path \in Paths : StartRequest("r1", w, path)
    \/ \E w \in Workers, path \in Paths : NotFound("r1", w, path)
    \/ GenStep("r1")
    \/ Respond("r1")
    \/ Deliver("r1")

SpecGen == InitGen /\ [][NextGen]_vars

----------------------------------------------------------------------------
(* Vocabulary of the claims about parse_typescript_file.                   *)

(* tokens of a comment when every whitespace character separates           *)
WhitespaceTokens(text) ==
    SelectSeq(SplitOn(text, WsAtoms), LAMBDA part : part # <<>>)

IsRouteAnnotation(text) ==
    LET toks == WhitespaceTokens(text)
    IN  Len(toks) >= 2 /\ ContainsRoute(toks[1])

AttachedStatement(i) == Find(unit.body, unit.comments[i].attached_to)

AttachedToInterface(i) ==
    /\ AttachedStatement(i) # None
    /\ AttachedStatement(i).kind = "TSInterfaceDeclaration"

(* comments that annotate an interface with a route                        *)
AnnotatedPairs ==
    {i \in 1..Len(unit.comments) :
        IsRouteAnnotation(unit.comments[i].text) /\ AttachedToInterface(i)}

Supported(member) ==
    /\ member.sig = "TSPropertySignature"
    /\ member.name # NoName
    /\ member.annot \in Keywords

AsProp(member) ==
    [id |-> member.name,
     ty |-> IF member.annot = "boolean" THEN "Boolean"
            ELSE IF member.annot = "number" THEN "Number" ELSE "String"]

(* the supported members, in declaration order                             *)
SupportedProps(members) ==
    LET kept == SelectSeq(members, Supported)
    IN  [k \in 1..Len(kept) |-> AsProp(kept[k])]

(* the supported members that carry no optional marker                     *)
RequiredProps(members) ==
    LET kept == SelectSeq(members, LAMBDA m : Supported(m) /\ ~m.optional)
    IN  [k \in 1..Len(kept) |-> AsProp(kept[k])]

HasWhitespace(s) == \E i \in 1..Len(s) : s[i] \in WsAtoms

(* C1: a unit with exactly one route-annotated interface declaration yields *)
(* exactly one Entity, whose route is the comment's second token and whose *)
(* props are the supported members of the interface, in declaration order. *)
C1_OneEntityPerAnnotatedInterface ==
    (ppc # "loop" /\ Cardinality(AnnotatedPairs) = 1) =>
        LET i == CHOOSE j \in AnnotatedPairs : TRUE
        IN  /\ ppc = "returned"
            /\ Len(entities) = 1
            /\ entities[1].route = WhitespaceTokens(unit.comments[i].text)[2]
            /\ entities[1].props = SupportedProps(AttachedStatement(i).members)

(* a comment without marker in its first part, or without second part      *)
LacksRouteToken(text) ==
    \/ Len(CommentParts(text)) < 2
    \/ ~ContainsRoute(CommentParts(text)[1])

(* C2: a comment without a route token, or attached to a statement that is *)
(* not an interface declaration, or attached to no top-level statement,    *)
(* adds no Entity, and parse_typescript_file never panics on it.           *)
C2_OtherCommentsSkippedWithoutFailure ==
    /\ ppc # "panicked"
    /\ \A k \in 1..Len(origin) :
          /\ ~LacksRouteToken(unit.comments[origin[k]].text)
          /\ AttachedToInterface(origin[k])

(* C9: comments are tokenized on every whitespace character; an Entity is  *)
(* made exactly for the comments whose first token contains the marker and *)
(* that have a second token, with that token as route, so a route is never *)
(* empty and holds no whitespace.                                          *)
C9_RouteIsSecondWhitespaceToken ==
    /\ \A k \in 1..Len(entities) :
          /\ entities[k].route # <<>>
          /\ ~HasWhitespace(entities[k].route)
          /\ IsRouteAnnotation(unit.comments[origin[k]].text)
          /\ entities[k].route = WhitespaceTokens(unit.comments[origin[k]].text)[2]
    /\ \A i \in 1..ci :
          (ppc # "panicked" /\ AttachedToInterface(i)
             /\ IsRouteAnnotation(unit.comments[i].text))
          => \E k \in 1..Len(origin) : origin[k] = i

(* C10 as stated: a member with an optional marker is dropped even when    *)
(* its annotation is a supported keyword.                                  *)
C10_OptionalMembersDropped ==
    \A k \in 1..Len(entities) :
        entities[k].props = RequiredProps(AttachedStatement(origin[k]).members)

(* C10 as amended: the optional marker is not read; every Entity built for *)
(* an interface holds exactly the supported members, optional or not, in   *)
(* declaration order.                                                      *)
C10_OptionalMembersKept ==
    \A k \in 1..Len(entities) :
        entities[k].props = SupportedProps(AttachedStatement(origin[k]).members)

C10_Witness ==
    /\ ppc = "returned"
    /\ \E k \in 1..Len(entities) :
          LET ms == AttachedStatement(origin[k]).members
          IN  /\ Len(ms) = 2
              /\ Supported(ms[1]) /\ ms[1].optional
              /\ Supported(ms[2]) /\ ~ms[2].optional
              /\ Len(entities[k].props) = 2

----------------------------------------------------------------------------
(* Vocabulary of the claims about the service.                             *)

Keys(data) == [k \in 1..Len(data) |-> data[k].key]
PropIds(entity) == [k \in 1..Len(entity.props) |-> entity.props[k].id]

InFlight(r) == reqs[r].st \in {"handling", "responded"}

TypeChecks(ty, val) ==
    CASE ty = "Boolean" -> val.t = "Bool" /\ val.b \in BOOLEAN
      [] ty = "Number" -> val.t = "Number" /\ val.n \in 0..999
      [] ty = "String" -> val.t = "String" /\ val.s # ""

(* the property that wrote key: the last one of that name already visited  *)
Writer(r, key) ==
    LET done == {j \in 1..reqs[r].i : reqs[r].entity.props[j].id = key}
    IN  CHOOSE j \in done : \A l \in done : l <= j

RECURSIVE Concat(_)
Concat(files) ==
    IF files = <<>> THEN <<>>
    ELSE ParseTypescriptFile(Head(files)).entities \o Concat(Tail(files))

FirstWithRoute(path) ==
    CHOOSE k \in 1..Len(catalog) :
        /\ catalog[k].route = path
        /\ \A j \in 1..(k - 1) : catalog[j].route # path

RECURSIVE FirstOccurrences(_)
FirstOccurrences(ids) ==
    IF ids = <<>> THEN <<>>
    ELSE LET front == SubSeq(ids, 1, Len(ids) - 1)
             last == ids[Len(ids)]
         IN  IF \E k \in 1..Len(front) : front[k] = last
             THEN FirstOccurrences(front)
             ELSE Append(FirstOccurrences(front), last)

(* the names of ids, each once, in the order of the strings                *)
SortedNames(ids) ==
    SelectSeq(KeyOrder, LAMBDA n : \E k \in 1..Len(ids) : ids[k] = n)

LastNamed(entity, name) ==
    LET named == {j \in 1..Len(entity.props) : entity.props[j].id = name}
    IN  entity.props[CHOOSE j \in named : \A l \in named : l <= j]

C4_FirstRegisteredServes ==
    /\ pc \in {"built", "listening"} => catalog = Concat(visited)
    /\ \A w \in Workers :
          apps[w].built =>
              /\ Len(apps[w].services) = Len(catalog)
              /\ \A k \in 1..Len(catalog) : apps[w].services[k].app_data = catalog[k]
    /\ \A r \in Requests :
          InFlight(r) => reqs[r].entity = catalog[FirstWithRoute(reqs[r].path)]

C4_Witness ==
    \E r \in Requests :
        /\ reqs[r].st = "responded"
        /\ reqs[r].worker = "w2"
        /\ \E j, k \in 1..Len(catalog) :
              /\ j < k
              /\ catalog[j].route = reqs[r].path
              /\ catalog[k].route = reqs[r].path
              /\ catalog[j].props # catalog[k].props
              /\ reqs[r].entity = catalog[j]

(* C5: once a visited source file could not be parsed, scan_dir yields no  *)
(* catalog, no route is registered and the process never listens.          *)
C5_ParseFailureIsFatal ==
    parse_failed =>
        /\ pc \notin {"built", "listening"}
        /\ \A w \in Workers : ~apps[w].built

(* C6: once a read of scan_dir has failed, main has returned the error:    *)
(* the Entities collected so far are gone, no catalog exists, no App is    *)
(* built and nothing is served.                                            *)
C6_IoFailureIsFatal ==
    io_failed =>
        /\ pc = "exit_err"
        /\ scanned = <<>>
        /\ catalog = <<>>
        /\ \A w \in Workers : ~apps[w].built
        /\ \A r \in Requests : reqs[r].st = "idle"

C6_Witness ==
    /\ io_failed
    /\ pc = "exit_err"
    /\ \E k \in 1..Len(visited) : ParseTypescriptFile(visited[k]).entities # <<>>

(* C7: generate_fake_data never panics, and every value it has written     *)
(* type-checks against the property that wrote it: a boolean, an integer   *)
(* in 0..999, a non-empty string.                                          *)
C7_ValuesTypeCheck ==
    \A r \in Requests :
        /\ reqs[r].st # "panicked"
        /\ InFlight(r) =>
              \A k \in 1..Len(reqs[r].data) :
                  TypeChecks(reqs[r].entity.props[Writer(r, reqs[r].data[k].key)].ty,
                             reqs[r].data[k].val)

C7_Witness ==
    /\ reqs["r1"].st = "responded"
    /\ Len(reqs["r1"].data) = 2
    /\ \E k \in 1..2 : reqs["r1"].data[k].val = Number(9)
    /\ \E k \in 1..2 : reqs["r1"].data[k].val.t = "String"

(* C8, the state of every request in flight: it holds the Entity of the    *)
(* catalog registered under the requested route, and its object holds only *)
(* keys of that Entity, with values of the types that Entity declares.     *)
OwnEntityOnly ==
    \A r \in Requests :
        InFlight(r) =>
            /\ reqs[r].entity.route = reqs[r].path
            /\ \E k \in 1..Len(catalog) : catalog[k] = reqs[r].entity
            /\ \A k \in 1..Len(reqs[r].data) :
                  \E j \in 1..reqs[r].i :
                      /\ reqs[r].entity.props[j].id = reqs[r].data[k].key
                      /\ TypeChecks(reqs[r].entity.props[j].ty, reqs[r].data[k].val)

(* C8, every step of the serving phase: the catalog and the built Apps     *)
(* stay as they are, a request keeps its Entity, and a step touches the    *)
(* state of one request at most.                                           *)
ServingStep ==
    pc = "listening" =>
        /\ catalog' = catalog
        /\ \A w \in Workers : apps[w].built => apps'[w] = apps[w]
        /\ \A r \in Requests :
              (InFlight(r) /\ reqs'[r].st \in {"handling", "responded"})
                  => reqs'[r].entity = reqs[r].entity
        /\ \A r1, r2 \in Requests :
              r1 # r2 => (reqs'[r1] = reqs[r1] \/ reqs'[r2] = reqs[r2])

(* C8: under every interleaving of GET requests the catalog and the        *)
(* registered Entities are unchanged and a response is built from the      *)
(* Entity of its own route alone.                                          *)
C8_RequestsIndependent == []OwnEntityOnly /\ [][ServingStep]_vars

C8_Witness ==
    /\ reqs["r1"].st = "handling" /\ reqs["r1"].i = 1
    /\ reqs["r2"].st = "handling" /\ reqs["r2"].i = 1
    /\ reqs["r1"].path = PathA /\ reqs["r2"].path = PathB
    /\ reqs["r1"].worker # reqs["r2"].worker

====
